---- MODULE Spec2Model ----
(***************************************************************************)
(* Model of the Newick comparison engine                                   *)
(* (extracting_phylogenies/newick_comparison/newick_comparison.py and the  *)
(* helpers of extracting_phylogenies/utilities/utilities.py).              *)
(*                                                                         *)
(* Newick documents and taxon names are TLA+ strings, read character by    *)
(* character.  Python floats that are quotients of small integers are kept *)
(* as exact fractions <<numerator, denominator>>; a value that the code    *)
(* passes through round(x, 4) is kept as the integer number of             *)
(* ten-thousandths (0.5 is 5000, 1.0 is 10000).  A Python dict is a        *)
(* sequence of <<key, value>> entries in insertion order.                  *)
(***************************************************************************)
EXTENDS Integers, Sequences, FiniteSets, TLC

VARIABLES
    original_newick,    \* Comparison_Job.original_newick
    generated_newick,   \* Comparison_Job.generated_newick
    format_original,    \* Comparison_Job.format_original
    format_generated,   \* Comparison_Job.format_generated
    pc,                 \* position of the running function
    original_taxa,      \* get_taxon_pairs_greedy: argument original_taxa
    generated_taxa,     \* get_taxon_pairs_greedy: argument generated_taxa (the pool)
    pair_dict,          \* get_taxon_pairs_greedy: local pair_dict
    idx,                \* get_taxon_pairs_greedy: index of the for loop
    taxa_comp_dict,     \* result of compare_taxa
    dist_comp_dict,     \* result of compare_distances
    topo_comp_dict,     \* result of compare_topology
    original_tree,      \* the text the comparator built original_tree from
    generated_tree,     \* the text the comparator built generated_tree from
    outfile_path,       \* main: is --outfile given
    tsv_file,           \* the file at the --outfile path: does it exist, its lines
    stdout,             \* the lines main printed
    tsv_entry,          \* main: the entry get_tsv_entry returned, None before the call
    runs,               \* number of runs of main that have emitted their record
    text,               \* utilities: the text a transform was last applied to
    earlier,            \* utilities: the text before that application
    applied,            \* utilities: the names of the transforms applied, in order
    exception           \* the exception that ended the run, or "none"

vars == <<original_newick, generated_newick, format_original, format_generated,
          pc, original_taxa, generated_taxa, pair_dict, idx,
          taxa_comp_dict, dist_comp_dict, topo_comp_dict,
          original_tree, generated_tree, outfile_path, tsv_file, stdout, tsv_entry,
          runs, text, earlier, applied, exception>>

job_vars == <<original_newick, generated_newick, format_original, format_generated>>

loop_vars == <<original_taxa, generated_taxa, pair_dict, idx>>

result_vars == <<taxa_comp_dict, dist_comp_dict, topo_comp_dict>>

tree_vars == <<original_tree, generated_tree>>

io_vars == <<outfile_path, tsv_file, stdout, tsv_entry>>

text_vars == <<text, earlier, applied>>

(***************************************************************************)
(* Bounds of the model.                                                    *)
(***************************************************************************)
MaxOriginal == 2    \* most leaves of a drawn original document

MaxGenerated == 2   \* most leaves of a drawn generated document

MaxTransforms == 2  \* most text transforms applied to one input text

MaxRuns == 2        \* most runs of main that emit a record, one after the other

(***************************************************************************)
(* Strings, fractions and dicts.                                           *)
(***************************************************************************)
Char(s, i) == SubSeq(s, i, i)

Max2(a, b) == IF a >= b THEN a ELSE b

Min2(a, b) == IF a <= b THEN a ELSE b

RECURSIVE GCD(_, _)
GCD(a, b) == IF b = 0 THEN a ELSE GCD(b, a % b)

\* a fraction n/d (d > 0) in lowest terms
Frac(n, d) == LET g == GCD(n, d) IN IF g = 0 THEN <<0, 1>> ELSE <<n \div g, d \div g>>

FracAdd(x, y) == Frac(x[1] * y[2] + y[1] * x[2], x[2] * y[2])

FracGT(x, y) == x[1] * y[2] > y[1] * x[2]

\* None, where a dict is expected
None == <<>>

\* no tree built yet
NoTree == ""

\* no file at the path
NoFile == [exists |-> FALSE, lines |-> <<>>]

\* variant: every assignment adds an entry, also for a key already present
DictSetAppending(d, k, v) == Append(d, <<k, v>>)

\* Python dict: d[k] = v keeps the position of an existing key
RECURSIVE DictSet(_, _, _)
DictSet(d, k, v) ==
    IF d = <<>> THEN << <<k, v>> >>
    ELSE IF Head(d)[1] = k THEN << <<k, v>> >> \o Tail(d)
    ELSE << Head(d) >> \o DictSet(Tail(d), k, v)

DictKeys(d) == { d[i][1] : i \in DOMAIN d }

DictValues(d) == { d[i][2] : i \in DOMAIN d }

DictGet(d, k) == d[CHOOSE i \in DOMAIN d : d[i][1] = k][2]

\* variant: the list is left as it is
ListRemoveNothing(l, x) == l

\* list.remove(x): drops the first occurrence of x
RECURSIVE ListRemove(_, _)
ListRemove(l, x) ==
    IF l = <<>> THEN <<>>
    ELSE IF Head(l) = x THEN Tail(l)
    ELSE << Head(l) >> \o ListRemove(Tail(l), x)

Count(l, x) == Cardinality({ i \in DOMAIN l : l[i] = x })

(***************************************************************************)
(* utilities.get_taxa: re.findall of                                       *)
(*   (?<=[,(])[\d\w\.\-\"\'#\/]+(?=[\:\)\,])                               *)
(***************************************************************************)
\* the character class [\d\w\.\-\"\'#\/]
TaxonChars ==
    { "a", "b", "c", "d", "e", "f", "g", "h", "i", "j", "k", "l", "m",
      "n", "o", "p", "q", "r", "s", "t", "u", "v", "w", "x", "y", "z",
      "A", "B", "C", "D", "E", "F", "G", "H", "I", "J", "K", "L", "M",
      "N", "O", "P", "Q", "R", "S", "T", "U", "V", "W", "X", "Y", "Z",
      "0", "1", "2", "3", "4", "5", "6", "7", "8", "9",
      "_", ".", "-", "\"", "'", "#", "/" }

\* variant: only "(" is looked behind for
TaxonLookbehindOpening == { "(" }

\* the lookbehind (?<=[,(])
TaxonLookbehind == { ",", "(" }

\* the lookahead (?=[\:\)\,])
TaxonLookahead == { ":", ")", "," }

\* last position of the longest run of class characters that starts at i
RECURSIVE RunEnd(_, _)
RunEnd(s, i) ==
    IF i + 1 <= Len(s) /\ Char(s, i + 1) \in TaxonChars THEN RunEnd(s, i + 1) ELSE i

\* positions from pos on where the lookbehind and the first character match
Candidates(s, pos) ==
    { p \in Max2(pos, 2)..Len(s) :
        Char(s, p - 1) \in TaxonLookbehind /\ Char(s, p) \in TaxonChars }

\* findall scans left to right and resumes after each match.  The greedy run
\* is the only candidate: a shorter one is followed by a class character,
\* which is never a lookahead character.
\* A position that fails the lookbehind or the class cannot start a match, so
\* the scan moves from candidate to candidate.
RECURSIVE FindTaxa(_, _, _)
FindTaxa(s, pos, acc) ==
    IF Candidates(s, pos) = {} THEN acc
    ELSE LET p == CHOOSE c \in Candidates(s, pos) : \A o \in Candidates(s, pos) : c <= o
             e == RunEnd(s, p)
         IN  IF e < Len(s) /\ Char(s, e + 1) \in TaxonLookahead
             THEN FindTaxa(s, e + 1, Append(acc, SubSeq(s, p, e)))
             ELSE FindTaxa(s, p + 1, acc)

get_taxa(newick) == FindTaxa(newick, 1, <<>>)

(***************************************************************************)
(* nltk.edit_distance(s1, s2, substitution_cost=1, transpositions=False)   *)
(* as called by edit_distance_ratio and compare_taxa: the Levenshtein      *)
(* table, filled row by row.  A row is lev[i][0..len2], kept 1-based.      *)
(***************************************************************************)
SetMin(S) == CHOOSE x \in S : \A y \in S : x <= y

\* row i of the table from row i - 1.  A cell is the least of the cell above
\* plus 1, the cell above-left plus the substitution cost and the cell to its
\* left plus 1; with the steps to the left unrolled, cell j is the least of
\* i + j (from cell 0) and of the first two of a column k <= j plus j - k.
LevCells(prev, c1, s2, i) ==
    LET from_above == [k \in 1..Len(s2) |->
                         Min2(prev[k + 1] + 1,
                              prev[k] + (IF c1 # Char(s2, k) THEN 1 ELSE 0))]
    IN  <<i>> \o [j \in 1..Len(s2) |->
                    SetMin({ i + j } \cup { from_above[k] + (j - k) : k \in 1..j })]

\* the table lev, one row appended per character of s1
RECURSIVE LevRows(_, _, _)
LevRows(s1, s2, lev) ==
    LET i == Len(lev)
    IN  IF i > Len(s1) THEN lev
        ELSE LevRows(s1, s2, Append(lev, LevCells(lev[i], Char(s1, i), s2, i)))

edit_distance(s1, s2) ==
    LevRows(s1, s2, << <<0>> \o [j \in 1..Len(s2) |-> j] >>)[Len(s1) + 1][Len(s2) + 1]

\* variant: the distance is divided by the length of the original taxon
edit_distance_ratio_by_original(original_taxon, generated_taxon) ==
    Frac(Len(original_taxon) - edit_distance(original_taxon, generated_taxon),
         Len(original_taxon))

\* 1 - edit_distance / max(len, len), as an exact fraction
edit_distance_ratio(original_taxon, generated_taxon) ==
    LET m == Max2(Len(original_taxon), Len(generated_taxon))
    IN  Frac(m - edit_distance(original_taxon, generated_taxon), m)

(***************************************************************************)
(* get_taxon_pairs_greedy                                                  *)
(***************************************************************************)
\* the literal 0.75 of line 120
Threshold == <<3, 4>>

\* score_dict of one iteration: keyed by name, in order of first occurrence
RECURSIVE ScoreDict(_, _, _)
ScoreDict(original_taxon, pool, acc) ==
    IF pool = <<>> THEN acc
    ELSE ScoreDict(original_taxon, Tail(pool),
                   DictSet(acc, Head(pool), edit_distance_ratio(original_taxon, Head(pool))))

\* max(score_dict.values())
MaxScore(sd) ==
    sd[CHOOSE i \in DOMAIN sd : \A j \in DOMAIN sd : ~FracGT(sd[j][2], sd[i][2])][2]

\* variant: the last key that has the largest score
BestKeyLast(sd) ==
    LET best == { i \in DOMAIN sd : \A j \in DOMAIN sd : ~FracGT(sd[j][2], sd[i][2]) }
    IN  sd[CHOOSE i \in best : \A j \in best : i >= j][1]

\* max(score_dict, key=score_dict.get): the first key that has the largest score
BestKey(sd) ==
    LET best == { i \in DOMAIN sd : \A j \in DOMAIN sd : ~FracGT(sd[j][2], sd[i][2]) }
    IN  sd[CHOOSE i \in best : \A j \in best : i <= j][1]

\* variant: a score equal to the threshold passes too
AboveThresholdInclusive(score) == ~FracGT(Threshold, score)

\* "> 0.75" of line 120
AboveThreshold(score) == FracGT(score, Threshold)

\* the condition of line 120
GreedyMatches(original_taxon, pool) ==
    LET sd == ScoreDict(original_taxon, pool, <<>>)
    IN  sd # <<>> /\ AboveThreshold(MaxScore(sd))

\* the value assigned at line 121
GreedyBest(original_taxon, pool) == BestKey(ScoreDict(original_taxon, pool, <<>>))

\* the whole loop of lines 116-126: the returned dict and what is left of the pool
RECURSIVE GreedyLoop(_, _, _, _)
GreedyLoop(o_taxa, i, pool, pd) ==
    IF i > Len(o_taxa) THEN [pairs |-> pd, pool |-> pool]
    ELSE IF GreedyMatches(o_taxa[i], pool)
         THEN LET g == GreedyBest(o_taxa[i], pool)
              IN  GreedyLoop(o_taxa, i + 1, ListRemove(pool, g), DictSet(pd, o_taxa[i], g))
         ELSE GreedyLoop(o_taxa, i + 1, pool, DictSet(pd, o_taxa[i], ""))

get_taxon_pairs_greedy(o_taxa, g_taxa) == GreedyLoop(o_taxa, 1, g_taxa, <<>>).pairs

(***************************************************************************)
(* ete3's Tree(newick, format=f), as is_newick, get_newick_format and the  *)
(* comparators call it: the text is cut at "(", "," and ")" into leaf and  *)
(* internal-node tokens, and each token must match the format's pattern.   *)
(***************************************************************************)
Digits == { "0", "1", "2", "3", "4", "5", "6", "7", "8", "9" }

Structural == { "(", ")", ",", ";" }

CountChar(s, c) == Cardinality({ i \in 1..Len(s) : Char(s, i) = c })

\* index of the first c in s, or Len(s) + 1
RECURSIVE IndexOf(_, _, _)
IndexOf(s, c, i) ==
    IF i > Len(s) \/ Char(s, i) = c THEN i ELSE IndexOf(s, c, i + 1)

\* [+-]?\d+\.?\d*  (no document here carries an exponent)
IsFloat(t) ==
    LET u == IF Len(t) > 0 /\ Char(t, 1) \in { "+", "-" } THEN Tail(t) ELSE t
        dot == IndexOf(u, ".", 1)
    IN  /\ dot > 1
        /\ \A i \in 1..Len(u) : i # dot => Char(u, i) \in Digits

\* [^():,;]+
IsName(t) == Len(t) > 0 /\ \A i \in 1..Len(t) : Char(t, i) \notin (Structural \cup { ":" })

\* last position of the token that starts at p: it runs up to the next "(",
\* ")", "," or ";"
RECURSIVE TokenEnd(_, _)
TokenEnd(s, p) ==
    IF p > Len(s) \/ Char(s, p) \in Structural THEN p - 1 ELSE TokenEnd(s, p + 1)

Token(s, p) == SubSeq(s, p, TokenEnd(s, p))

\* a leaf is read after every "(" and "," that is not followed by "("
LeafStarts(s) ==
    { p \in 2..Len(s) : Char(s, p - 1) \in { "(", "," } /\ Char(s, p) # "(" }

\* the data of an internal node follows its ")"
InternalStarts(s) == { p \in 2..Len(s) : Char(s, p - 1) = ")" }

NamePart(t) == SubSeq(t, 1, IndexOf(t, ":", 1) - 1)

AfterColon(t) == SubSeq(t, IndexOf(t, ":", 1) + 1, Len(t))

HasColon(t) == IndexOf(t, ":", 1) <= Len(t)

\* the leaf pattern of each format (NW_FORMAT columns 1 and 2)
LeafTokenOk(t, format) ==
    CASE format = 100 -> t = ""
      [] format = 9   -> IsName(t)
      [] format = 5   -> HasColon(t) /\ IsName(NamePart(t)) /\ IsFloat(AfterColon(t))
      [] OTHER        -> /\ IsName(NamePart(t))
                         /\ HasColon(t) => IsFloat(AfterColon(t))

\* the internal-node pattern of each format (columns 3 and 4); empty data is
\* accepted by every format
InternalTokenOk(t, format) ==
    \/ t = ""
    \/ CASE format = 100 -> FALSE
         [] format = 9   -> FALSE
         [] format = 5   -> NamePart(t) = "" /\ HasColon(t) /\ IsFloat(AfterColon(t))
         [] OTHER        -> /\ NamePart(t) = "" \/ IsFloat(NamePart(t))
                            /\ HasColon(t) => IsFloat(AfterColon(t))

\* number of "(" minus number of ")" in s[1..i]
Depth(s, i) ==
    Cardinality({ j \in 1..i : Char(s, j) = "(" }) - Cardinality({ j \in 1..i : Char(s, j) = ")" })

\* Tree(newick, format) builds a tree (it raises NewickError otherwise)
TreeParses(s, format) ==
    /\ Len(s) >= 2
    /\ Char(s, 1) = "("
    /\ Char(s, Len(s)) = ";"
    /\ CountChar(s, ";") = 1
    /\ CountChar(s, "(") = CountChar(s, ")")
    /\ \A i \in 1..(Len(s) - 1) : Depth(s, i) = 0 => TokenEnd(s, i + 1) = Len(s) - 1
    /\ \A p \in LeafStarts(s) :
          /\ LeafTokenOk(Token(s, p), format)
          /\ Char(s, TokenEnd(s, p) + 1) # "("
    /\ \A p \in InternalStarts(s) :
          /\ InternalTokenOk(Token(s, p), format)
          /\ Char(s, TokenEnd(s, p) + 1) # "("

\* utilities.is_newick: "if format:" sends format 0 to the default Tree(newick),
\* which reads format 0 as well
is_newick(newick, format) == TreeParses(newick, format)

\* stands for the ValueError of line 119
InvalidNewick == -1

\* variant: the flexible grammar is tried before the taxa-only grammar
get_newick_format_flexible_first(newick) ==
    IF is_newick(newick, 100) THEN 100
    ELSE IF is_newick(newick, 0) THEN 0
    ELSE IF is_newick(newick, 9) THEN 9
    ELSE IF is_newick(newick, 5) THEN 5
    ELSE InvalidNewick

\* utilities.get_newick_format
get_newick_format(newick) ==
    IF is_newick(newick, 100) THEN 100
    ELSE IF is_newick(newick, 9) THEN 9
    ELSE IF is_newick(newick, 5) THEN 5
    ELSE IF is_newick(newick, 0) THEN 0
    ELSE InvalidNewick

(***************************************************************************)
(* The tree of a parsed document.  A leaf is named by the position of its  *)
(* token, an internal node by the position of its "(".                     *)
(***************************************************************************)
Opens(s) == { p \in 1..Len(s) : Char(s, p) = "(" }

\* position of the ")" that closes the "(" at p
MatchClose(s, p) ==
    LET below == Depth(s, p) - 1
    IN  SetMin({ q \in (p + 1)..Len(s) : Char(s, q) = ")" /\ Depth(s, q) = below })

\* the leaves below the internal node p
LeavesBelow(s, p) ==
    LET close == MatchClose(s, p)
    IN  { l \in LeafStarts(s) : p < l /\ l <= close }

LeafName(s, l) == NamePart(Token(s, l))

\* the sequence of a set of positions, ascending
RECURSIVE Ascending(_)
Ascending(S) ==
    IF S = {} THEN <<>>
    ELSE LET m == CHOOSE x \in S : \A y \in S : x <= y
         IN  <<m>> \o Ascending(S \ {m})

\* Tree.get_leaf_names()
get_leaf_names(s) == [i \in 1..Cardinality(LeafStarts(s)) |-> LeafName(s, Ascending(LeafStarts(s))[i])]

\* the node (0 for none) whose child the node or leaf at x is
ParentOf(s, x) ==
    LET above == { p \in Opens(s) : p < x /\ x <= MatchClose(s, p) }
    IN  IF above = {} THEN 0 ELSE CHOOSE p \in above : \A r \in above : r <= p

\* len(node.get_children()) of the internal node p
ChildCount(s, p) ==
    Cardinality({ x \in LeafStarts(s) \cup Opens(s) : x # p /\ ParentOf(s, x) = p })

\* node.get_children() of the node at x; a leaf has none
get_children(s, x) == { c \in LeafStarts(s) \cup Opens(s) : c # x /\ ParentOf(s, c) = x }

\* variant: a node with two children counts too
MoreThanOneChild(s, node) == ChildCount(s, node) > 1

\* line 235: len(node.get_children()) > 2
MoreThanTwoChildren(s, node) == ChildCount(s, node) > 2

\* lines 233-239: the worker adds 1 for the node it is called on and the
\* results of the calls on its children (ChildrenSum is the for loop)
RECURSIVE count_multifurcations_worker(_, _), ChildrenSum(_, _)
count_multifurcations_worker(s, node) ==
    (IF MoreThanTwoChildren(s, node) THEN 1 ELSE 0) + ChildrenSum(s, get_children(s, node))

ChildrenSum(s, children) ==
    IF children = {} THEN 0
    ELSE count_multifurcations_worker(s, SetMin(children))
         + ChildrenSum(s, children \ { SetMin(children) })

\* line 240: the worker is called on the root of Tree(newick), the node of the
\* first "("
count_multifurcations(newick) == count_multifurcations_worker(newick, 1)

(***************************************************************************)
(* hamming_distance and Comparison_Job.compare_taxa                        *)
(***************************************************************************)
\* round(n/d, 4) in ten-thousandths, for n/d >= 0 (no value met here lies
\* exactly between two ten-thousandths)
Round4(x) == (2 * 10000 * x[1] + x[2]) \div (2 * x[2])

\* lines 80-86; the caller only passes strings of equal length
hamming_distance(str1, str2) ==
    Cardinality({ i \in 1..Len(str1) : Char(str1, i) # Char(str2, i) })

\* lines 226-230: match_counter
RECURSIVE MatchLoop(_, _)
MatchLoop(items, match_counter) ==
    IF items = <<>> THEN match_counter
    ELSE MatchLoop(Tail(items),
                   IF Head(items)[1] = Head(items)[2] THEN match_counter + 1
                   ELSE match_counter)

\* lines 233-257: the Hamming accumulators, the two counters and mismatches
RECURSIVE HammingLoop(_, _)
HammingLoop(items, acc) ==
    IF items = <<>> THEN acc
    ELSE LET original == Head(items)[1]
             generated == Head(items)[2]
         IN  HammingLoop(Tail(items),
               IF generated # ""
               THEN IF Len(original) = Len(generated)
                    THEN LET hdist == hamming_distance(original, generated)
                         IN  [acc EXCEPT
                                !.accu_hamming_distances = @ + hdist,
                                !.accu_hamming_ratios =
                                    FracAdd(@, Frac(Len(original) - hdist, Len(original))),
                                !.equal_length_counter = @ + 1]
                    ELSE [acc EXCEPT
                            !.unequal_length_counter = @ + 1,
                            !.accu_hamming_distances = @ + Len(original)]
               ELSE [acc EXCEPT
                       !.accu_hamming_distances = @ + Len(original),
                       !.mismatches = Append(@, original)])

\* lines 266-272: the edit accumulators, over every item of the pair map
RECURSIVE EditLoop(_, _)
EditLoop(items, acc) ==
    IF items = <<>> THEN acc
    ELSE LET original == Head(items)[1]
             generated == Head(items)[2]
             dist == edit_distance(original, generated)
             m == Max2(Len(original), Len(generated))
         IN  EditLoop(Tail(items),
               [accu_edit_distances |-> acc.accu_edit_distances + dist,
                accu_edit_ratios |-> FracAdd(acc.accu_edit_ratios, Frac(m - dist, m))])

Raised(e) == [raised |-> e, value |-> None]

Returns(v) == [raised |-> "none", value |-> v]

\* variant: the generated taxa are counted after the aligner consumed them
GeneratedCountAfterAlignment(o_taxa, g_taxa) == Len(GreedyLoop(o_taxa, 1, g_taxa, <<>>).pool)

\* line 222: len(generated_taxa), taken before the aligner is called
GeneratedCount(o_taxa, g_taxa) == Len(g_taxa)

\* variant: the ratio sum is divided by the number of all entries
MatchedCountAll(taxon_pairs, mismatches) == Len(taxon_pairs)

\* len(taxon_pairs) - len(mismatches) of lines 278 and 280
MatchedCount(taxon_pairs, mismatches) == Len(taxon_pairs) - Len(mismatches)

\* variant: the Hamming means are taken over the entries of the pair map
HammingDivisorEntries(original_taxa_count, taxon_pairs) == Len(taxon_pairs)

\* the divisor of lines 263-264
HammingDivisor(original_taxa_count, taxon_pairs) == original_taxa_count

\* lines 217-282
compare_taxa(o_newick, g_newick) ==
    LET o_taxa == get_taxa(o_newick)
        g_taxa == get_taxa(g_newick)
        original_taxa_count == Len(o_taxa)
        generated_taxa_count == GeneratedCount(o_taxa, g_taxa)
        taxon_pairs == get_taxon_pairs_greedy(o_taxa, g_taxa)
        match_counter == MatchLoop(taxon_pairs, 0)
        ham == HammingLoop(taxon_pairs,
                 [accu_hamming_distances |-> 0, accu_hamming_ratios |-> <<0, 1>>,
                  equal_length_counter |-> 0, unequal_length_counter |-> 0,
                  mismatches |-> <<>>])
        edit == EditLoop(taxon_pairs,
                  [accu_edit_distances |-> 0, accu_edit_ratios |-> <<0, 1>>])
        matched == MatchedCount(taxon_pairs, ham.mismatches)
        hdiv == HammingDivisor(original_taxa_count, taxon_pairs)
    IN  IF Len(o_taxa) = 0 THEN Raised("ZeroDivisionError")          \* line 231
        ELSE IF matched = 0 THEN Raised("ZeroDivisionError")         \* line 278
        ELSE Returns(
          [taxa_count_original |-> original_taxa_count,
           taxa_count_generated |-> generated_taxa_count,
           correct_taxa_ratio |-> Round4(<<match_counter, Len(o_taxa)>>),
           count_equal_length |-> ham.equal_length_counter,
           count_unequal_length |-> ham.unequal_length_counter,
           mismatches |-> ham.mismatches,
           mean_hamming_distance |-> Round4(<<ham.accu_hamming_distances, hdiv>>),
           mean_hamming_distance_ratio |->
               Round4(<<ham.accu_hamming_ratios[1], ham.accu_hamming_ratios[2] * hdiv>>),
           mean_edit_distance |-> Round4(<<edit.accu_edit_distances, Len(taxon_pairs)>>),
           mean_edit_distance_total |-> Round4(<<edit.accu_edit_distances, matched>>),
           mean_edit_ratio |->
               Round4(<<edit.accu_edit_ratios[1], edit.accu_edit_ratios[2] * matched>>),
           mean_edit_ratio_total |->
               Round4(<<edit.accu_edit_ratios[1],
                        edit.accu_edit_ratios[2] * Len(taxon_pairs)>>)])

(***************************************************************************)
(* ete3's TreeNode.compare(ref_tree, unrooted=True) and robinson_foulds,   *)
(* as compare_topology calls them on original_tree (the source) and        *)
(* generated_tree (the reference).                                         *)
(***************************************************************************)
\* the printable ASCII characters in code-point order (without the backquote,
\* which a TLA+ string cannot hold)
AsciiOrder ==
    " !\"#$%&'()*+,-./0123456789:;<=>?@ABCDEFGHIJKLMNOPQRSTUVWXYZ[\\]^_abcdefghijklmnopqrstuvwxyz{|}~"

CharRank(c) == CHOOSE i \in 1..Len(AsciiOrder) : Char(AsciiOrder, i) = c

\* Python's a < b on str
RECURSIVE StrLess(_, _)
StrLess(a, b) ==
    IF b = "" THEN FALSE
    ELSE IF a = "" THEN TRUE
    ELSE IF Char(a, 1) # Char(b, 1) THEN CharRank(Char(a, 1)) < CharRank(Char(b, 1))
    ELSE StrLess(Tail(a), Tail(b))

LeafNameSet(s) == { LeafName(s, l) : l \in LeafStarts(s) }

\* the leaf sets of all nodes (get_cached_content): every leaf, every internal node
NodeContents(s) == { {l} : l \in LeafStarts(s) } \cup { LeavesBelow(s, p) : p \in Opens(s) }

\* one bipartition, restricted to the common names: the unordered pair of the
\* names below the node and the names of the rest of the tree
Bipartition(s, content, common) ==
    { { LeafName(s, l) : l \in content } \cap common,
      { LeafName(s, l) : l \in LeafStarts(s) \ content } \cap common }

\* edges1 / edges2, after discard(((),()))
Bipartitions(s, common) ==
    { Bipartition(s, content, common) : content \in NodeContents(s) } \ { { {} } }

\* len(p[0]) > 1 and len(p[1]) > 1
BothSidesLarge(e) == \A side \in e : Cardinality(side) > 1

\* len(p[0]) > 1 and len(p[1]) > 0, where p is the sorted pair of sorted name
\* tuples: p[0] is () when a side is empty, else the side that holds the
\* smallest name
ValidEdge(e, common) ==
    /\ Cardinality(e) = 2
    /\ {} \notin e
    /\ LET least == CHOOSE a \in common : \A b \in common : ~StrLess(b, a)
       IN  \A side \in e : least \in side => Cardinality(side) > 1

\* the valid edges of one tree; without a common leaf or with a tree that has
\* no edge, compare leaves both sets empty
ValidEdges(edges, other, common) ==
    IF common # {} /\ edges # {} /\ other # {}
    THEN { e \in edges : ValidEdge(e, common) }
    ELSE {}

\* the dict compare returns
CompareResult(ref_p, src_p, valid_ref_edges, valid_src_edges) ==
    [rf |-> Cardinality((ref_p \ src_p) \cup (src_p \ ref_p)),
     max_rf |-> Cardinality({ e \in ref_p : BothSidesLarge(e) })
                + Cardinality({ e \in src_p : BothSidesLarge(e) }),
     ref_edges_in_source |->
         IF valid_ref_edges \cap valid_src_edges = {} THEN <<0, 1>>
         ELSE Frac(Cardinality(valid_ref_edges \cap valid_src_edges),
                   Cardinality(valid_ref_edges)),
     ref_edges |-> valid_ref_edges,
     common_edges |-> valid_ref_edges \cap valid_src_edges]

CompareEdges(common, ref_p, src_p) ==
    CompareResult(ref_p, src_p,
                  ValidEdges(ref_p, src_p, common), ValidEdges(src_p, ref_p, common))

\* number of leaves of s that carry a common name
CommonSize(s, common) ==
    Cardinality({ l \in LeafStarts(s) : LeafName(s, l) \in common })

\* robinson_foulds raises TreeError when a common name is carried by two leaves
CompareCommon(source, ref, common) ==
    IF \/ CommonSize(ref, common) > Cardinality(common)
       \/ CommonSize(source, common) > Cardinality(common)
    THEN Raised("TreeError")
    ELSE Returns(CompareEdges(common, Bipartitions(ref, common),
                              Bipartitions(source, common)))

\* original_tree.compare(generated_tree, unrooted=True)
TreeCompare(source, ref) ==
    CompareCommon(source, ref, LeafNameSet(ref) \cap LeafNameSet(source))

(***************************************************************************)
(* Comparison_Job.compare_topology and Comparison_Job.compare_distances    *)
(***************************************************************************)
\* lines 300-301 and 358-359: str.replace returns a new string, which the loop
\* drops; the local variable generated keeps the text it had
SpellingCorrected(generated, taxa_pairs) == generated

\* lines 310-326: topo_dict
TopologyDict(comp_dict, count_original_edges, count_common_edges, original, generated) ==
    [rf |-> comp_dict.rf,
     max_rf |-> comp_dict.max_rf,
     rf_ratio |-> Round4(<<comp_dict.max_rf - comp_dict.rf, comp_dict.max_rf>>),
     ref_edges_in_source |-> comp_dict.ref_edges_in_source,
     count_original_edges |-> count_original_edges,
     count_missing_edges |-> count_original_edges - count_common_edges,
     count_common_edges |-> count_common_edges,
     correct_edges_ratio |-> Round4(<<count_common_edges, count_original_edges>>),
     \* Tree.write() keeps the shape of the tree it prints
     count_multifurcations_original |-> count_multifurcations(original),
     count_multifurcations_generated |-> count_multifurcations(generated)]

\* lines 309-327, comp being what original_tree.compare returned or raised
TopologyOf(comp, original, generated) ==
    IF comp.raised # "none" THEN comp                                  \* line 309
    ELSE IF comp.value.max_rf = 0
         THEN Raised("ZeroDivisionError")                              \* line 313
    ELSE IF Cardinality(comp.value.ref_edges) = 0
         THEN Raised("ZeroDivisionError")                              \* line 322
    ELSE Returns(TopologyDict(comp.value, Cardinality(comp.value.ref_edges),
                              Cardinality(comp.value.common_edges), original, generated))

\* lines 302-327, generated being the text the loop of lines 300-301 left
TopologyOfTexts(original, generated) ==
    IF ~TreeParses(original, 0) \/ ~TreeParses(generated, 0)
    THEN Raised("NewickError")                                         \* lines 302-303
    ELSE TopologyOf(TreeCompare(original, generated), original, generated)

\* lines 295-327
compare_topology(o_newick, g_newick) ==
    TopologyOfTexts(o_newick,
                    SpellingCorrected(g_newick,
                        get_taxon_pairs_greedy(get_taxa(o_newick), get_taxa(g_newick))))

\* lines 352-397: common_leaves holds names (str), so the loop body of line 370
\* fails on leaf.name as soon as there is a common leaf; with none, mean([])
\* of line 377 fails
DistancesOfTexts(original, generated) ==
    IF ~TreeParses(original, 0) \/ ~TreeParses(generated, 0)
    THEN Raised("NewickError")                                         \* lines 361-362
    ELSE IF LeafNameSet(original) \cap LeafNameSet(generated) # {}
         THEN Raised("AttributeError")                                 \* line 370
    ELSE Raised("StatisticsError")                                     \* line 377

compare_distances(o_newick, g_newick) ==
    DistancesOfTexts(o_newick,
                     SpellingCorrected(g_newick,
                         get_taxon_pairs_greedy(get_taxa(o_newick), get_taxa(g_newick))))

(***************************************************************************)
(* Comparison_Job.get_tsv_header and get_tsv_entry.  A line is the         *)
(* sequence of its fields, each of which the code ends with a tab.  No     *)
(* --params file is given (info_header and info_entry are None).           *)
(***************************************************************************)
\* lines 153-165
get_tsv_header ==
    << "newick1", "newick2", "format1", "format2", "count_taxa1", "count_taxa2",
       "correct_taxa_ratio",
       "count_equal_length", "count_unequal_length", "mean_ham_dist", "mean_ham_ratio",
       "mean_edit_dist",
       "mean_edit_dist_total", "mean_edit_ratio", "mean_edit_ratio_total",
       "mean_abs_diff_leaf_dists", "median_abs_diff_leaf_dists", "mean_neg_diff_leaf_dists",
       "median_neg_diff_leaf_dists", "mean_pos_diff_leaf_dists",
       "median_pos_diff_leaf_dists", "mean_pairwise_dist_diff", "median_pairwise_dist_diff",
       "rf_dist", "max_rf_dist", "rf_ratio", "count_orig_edges", "ref_edges_in_source",
       "count_missing_edges",
       "count_common_edges", "correct_edge_ratio",
       "count_multifurcations_original",
       "count_multifurcations_generated" >>

\* get_filename of the two paths of the job
OriginalFilename == "original.nwk"

GeneratedFilename == "generated.nwk"

Nones(n) == [i \in 1..n |-> "None"]

\* lines 173-198; "if taxa_comp:" and its like are false for None
get_tsv_entry(f_original, f_generated, taxa_comp, dist_comp, topo_comp) ==
    << OriginalFilename, GeneratedFilename, f_original, f_generated >>
    \o (IF taxa_comp # None
        THEN << taxa_comp.taxa_count_original, taxa_comp.taxa_count_generated,
                taxa_comp.correct_taxa_ratio, taxa_comp.count_equal_length,
                taxa_comp.count_unequal_length,
                taxa_comp.mean_hamming_distance, taxa_comp.mean_hamming_distance_ratio,
                taxa_comp.mean_edit_distance, taxa_comp.mean_edit_distance_total,
                taxa_comp.mean_edit_ratio,
                taxa_comp.mean_edit_ratio_total >>
        ELSE Nones(11))
    \o (IF dist_comp # None
        THEN << dist_comp.mean_abs_diff, dist_comp.median_abs_diff,
                dist_comp.mean_neg_diff, dist_comp.median_neg_diff,
                dist_comp.mean_pos_diff, dist_comp.median_pos_diff,
                dist_comp.mean_pairwise_diff, dist_comp.median_pairwise_diff >>
        ELSE Nones(11))
    \o (IF topo_comp # None
        THEN << topo_comp.rf, topo_comp.max_rf, topo_comp.rf_ratio,
                topo_comp.count_original_edges, topo_comp.ref_edges_in_source,
                topo_comp.count_missing_edges, topo_comp.count_common_edges,
                topo_comp.correct_edges_ratio,
                topo_comp.count_multifurcations_original,
                topo_comp.count_multifurcations_original >>
        ELSE Nones(8))

(***************************************************************************)
(* The documents the runs are drawn from.                                  *)
(***************************************************************************)
\* "abcd" scores 0.8 against the other two (unequal length), "abcde" scores
\* 0.8 against "abcdf" (equal length, Hamming distance 1)
TaxonNames == { "abcd", "abcde", "abcdf" }

TaxaLists(n) == UNION { [1..k -> TaxonNames] : k \in 0..n }

RECURSIVE JoinLeaves(_)
JoinLeaves(l) ==
    IF l = <<>> THEN ""
    ELSE IF Len(l) = 1 THEN Head(l) \o ":1"
    ELSE Head(l) \o ":1," \o JoinLeaves(Tail(l))

\* one level of leaves, each with branch length 1
FlatNewick(l) == "(" \o JoinLeaves(l) \o ");"

ScenarioPairs ==
    { <<"(A:1,B:1):0;", "(A:1,C:1):0;">>,
      <<"(Homo_sapiens:1,Pan:2);", "(Homo_sapienz:1,Pan:2);">>,
      <<"(A*:1,B*:1);", "(A*:1,B*:1);">>,
      <<"(A*:1,B:1);", "(A:1,B:1);">>,
      <<"((,),(,));", "((A:1,B:1):1,(C:1,D:1):1);">>,
      <<"(A,B);", "(A,B);">>,
      <<"(abcd:1,abcde:1);", "(abce:1);">>,
      <<"(A,B);", "((,),(,));">>,
      <<"(A,B,C);", "((A,B),C);">>,
      <<"((A:1,B:1);", "(A:1,B:1);">>,
      <<"(A:1,B:1);", "(A:x,B:1);">>,
      <<"((A:1,B:1):1,(C:1,D:1):1);", "((A:2,B:2):2,(C:2,D:2):2);">>,
      <<"((A:1,B:1,C:1):1,D:1,E:1);", "((A:1,B:1):1,C:1,D:1,E:1);">>,
      <<"((A:1,B:1):1,(C:1,D:1):1);", "((A:1,B:1):1,(C:1,D:1):1);">>,
      <<"((Homo_sapiens:1,Pan:2):1,(Mus:3,Rattus:4):1,Gallus:5);",
        "((Homo_sapienz:1,Pan:2):1,(Mus:3,Rattus:4):1,Gallus:5);">> }

DocumentPairs ==
    { <<FlatNewick(o), FlatNewick(g)>> : o \in TaxaLists(MaxOriginal), g \in TaxaLists(MaxGenerated) }
    \cup ScenarioPairs

(***************************************************************************)
(* SpecPairs: one call get_taxon_pairs_greedy(get_taxa(original),          *)
(* get_taxa(generated)), one loop iteration per step.                      *)
(***************************************************************************)
InitPairs ==
    /\ \E p \in DocumentPairs :
          /\ original_newick = p[1]
          /\ generated_newick = p[2]
          /\ original_taxa = get_taxa(p[1])
          /\ generated_taxa = get_taxa(p[2])
    /\ format_original = get_newick_format(original_newick)
    /\ format_generated = get_newick_format(generated_newick)
    /\ pair_dict = <<>>
    /\ idx = 1
    /\ pc = "greedy_loop"
    /\ taxa_comp_dict = None
    /\ dist_comp_dict = None
    /\ topo_comp_dict = None
    /\ original_tree = NoTree
    /\ generated_tree = NoTree
    /\ outfile_path = FALSE
    /\ tsv_file = NoFile
    /\ stdout = <<>>
    /\ tsv_entry = None
    /\ runs = 0
    /\ text = ""
    /\ earlier = ""
    /\ applied = <<>>
    /\ exception = "none"

\* lines 116-123: the branch that assigns
GreedyAssign ==
    /\ UNCHANGED <<text_vars, runs>>
    /\ pc = "greedy_loop"
    /\ idx <= Len(original_taxa)
    /\ GreedyMatches(original_taxa[idx], generated_taxa)
    /\ pair_dict' = DictSet(pair_dict, original_taxa[idx],
                            GreedyBest(original_taxa[idx], generated_taxa))
    /\ generated_taxa' = ListRemove(generated_taxa,
                                    GreedyBest(original_taxa[idx], generated_taxa))
    /\ idx' = idx + 1
    /\ UNCHANGED <<job_vars, pc, original_taxa, result_vars, tree_vars, io_vars, exception>>

\* lines 116-120, 124-125: the else branch
GreedyNoMatch ==
    /\ UNCHANGED <<text_vars, runs>>
    /\ pc = "greedy_loop"
    /\ idx <= Len(original_taxa)
    /\ ~GreedyMatches(original_taxa[idx], generated_taxa)
    /\ pair_dict' = DictSet(pair_dict, original_taxa[idx], "")
    /\ idx' = idx + 1
    /\ UNCHANGED <<job_vars, pc, original_taxa, generated_taxa, result_vars, tree_vars, io_vars, exception>>

\* line 126
GreedyReturn ==
    /\ UNCHANGED <<text_vars, runs>>
    /\ pc = "greedy_loop"
    /\ idx > Len(original_taxa)
    /\ pc' = "greedy_returned"
    /\ UNCHANGED <<job_vars, loop_vars, result_vars, tree_vars, io_vars, exception>>

NextPairs == GreedyAssign \/ GreedyNoMatch \/ GreedyReturn

SpecPairs == InitPairs /\ [][NextPairs]_vars

(***************************************************************************)
(* Spec: a Comparison_Job built from two files as main builds it (lines    *)
(* 450-474), and its three comparators called in any order.  An exception  *)
(* is not caught anywhere in the module: it ends the run.                  *)
(***************************************************************************)
Init ==
    /\ \E p \in DocumentPairs :
          /\ original_newick = p[1]
          /\ generated_newick = p[2]
          /\ format_original = get_newick_format(p[1])
          /\ format_generated = get_newick_format(p[2])
    \* main builds the job only from two documents it could classify
    /\ format_original # InvalidNewick
    /\ format_generated # InvalidNewick
    /\ original_taxa = <<>>
    /\ generated_taxa = <<>>
    /\ pair_dict = <<>>
    /\ idx = 1
    /\ pc = "job"
    /\ taxa_comp_dict = None
    /\ dist_comp_dict = None
    /\ topo_comp_dict = None
    /\ original_tree = NoTree
    /\ generated_tree = NoTree
    /\ outfile_path = FALSE
    /\ tsv_file = NoFile
    /\ stdout = <<>>
    /\ tsv_entry = None
    /\ runs = 0
    /\ text = ""
    /\ earlier = ""
    /\ applied = <<>>
    /\ exception = "none"

\* comparison_job.compare_taxa()
CompareTaxa ==
    /\ UNCHANGED <<text_vars, runs>>
    /\ pc = "job"
    /\ \E r \in { compare_taxa(original_newick, generated_newick) } :
           /\ taxa_comp_dict' = IF r.raised = "none" THEN r.value ELSE taxa_comp_dict
           /\ exception' = r.raised
           /\ pc' = IF r.raised = "none" THEN "job" ELSE "raised"
    /\ UNCHANGED <<job_vars, loop_vars, dist_comp_dict, topo_comp_dict, tree_vars, io_vars>>

\* the two Tree(...) calls of a comparator: what each tree was built from
TreesBuilt(o_newick, g_newick) ==
    \E generated \in { SpellingCorrected(g_newick,
                          get_taxon_pairs_greedy(get_taxa(o_newick), get_taxa(g_newick))) },
       original_built \in { TreeParses(o_newick, 0) } :
        /\ original_tree' = IF original_built THEN o_newick ELSE original_tree
        /\ generated_tree' = IF original_built /\ TreeParses(generated, 0)
                             THEN generated ELSE generated_tree

\* comparison_job.compare_distances()
CompareDistances ==
    /\ UNCHANGED <<text_vars, runs>>
    /\ pc = "job"
    /\ \E r \in { compare_distances(original_newick, generated_newick) } :
           /\ dist_comp_dict' = IF r.raised = "none" THEN r.value ELSE dist_comp_dict
           /\ exception' = r.raised
           /\ pc' = IF r.raised = "none" THEN "job" ELSE "raised"
    /\ TreesBuilt(original_newick, generated_newick)
    /\ UNCHANGED <<job_vars, loop_vars, taxa_comp_dict, topo_comp_dict, io_vars>>

\* variant: the comparator files the grammar its Tree(...) calls read with
\* (the default, 0) in the job
CompareTopologyRecordingFormat ==
    /\ UNCHANGED <<text_vars, runs>>
    /\ pc = "job"
    /\ \E r \in { compare_topology(original_newick, generated_newick) } :
           /\ topo_comp_dict' = IF r.raised = "none" THEN r.value ELSE topo_comp_dict
           /\ exception' = r.raised
           /\ pc' = IF r.raised = "none" THEN "job" ELSE "raised"
    /\ TreesBuilt(original_newick, generated_newick)
    /\ format_original' = 0
    /\ format_generated' = 0
    /\ UNCHANGED <<original_newick, generated_newick, loop_vars, taxa_comp_dict,
                   dist_comp_dict, io_vars>>

\* comparison_job.compare_topology()
CompareTopology ==
    /\ UNCHANGED <<text_vars, runs>>
    /\ pc = "job"
    /\ \E r \in { compare_topology(original_newick, generated_newick) } :
           /\ topo_comp_dict' = IF r.raised = "none" THEN r.value ELSE topo_comp_dict
           /\ exception' = r.raised
           /\ pc' = IF r.raised = "none" THEN "job" ELSE "raised"
    /\ TreesBuilt(original_newick, generated_newick)
    /\ UNCHANGED <<job_vars, loop_vars, taxa_comp_dict, dist_comp_dict, io_vars>>

\* comparison_job.get_tsv_entry(None, taxa_comp, dist_comp, topo_comp), called
\* as main calls it: with what the comparators returned so far, after them
GetTsvEntry ==
    /\ UNCHANGED <<text_vars, runs>>
    /\ pc = "job"
    /\ tsv_entry' = get_tsv_entry(format_original, format_generated,
                                  taxa_comp_dict, dist_comp_dict, topo_comp_dict)
    /\ pc' = "entry_built"
    /\ UNCHANGED <<job_vars, loop_vars, result_vars, tree_vars, outfile_path, tsv_file,
                   stdout, exception>>

Next == CompareTaxa \/ CompareDistances \/ CompareTopology \/ GetTsvEntry

Spec == Init /\ [][Next]_vars

(***************************************************************************)
(* SpecMain: one run of main.                                              *)
(***************************************************************************)
\* format_original / format_generated before main has classified the files
NoFormat == -2

\* a table an earlier run left at the --outfile path
EarlierTable ==
    [exists |-> TRUE,
     lines |-> << get_tsv_header, get_tsv_entry(100, 100, None, None, None) >>]

InitMain ==
    /\ \E p \in DocumentPairs :
          /\ original_newick = p[1]
          /\ generated_newick = p[2]
    /\ \E given \in BOOLEAN, file \in { NoFile, EarlierTable } :
          /\ outfile_path = given
          /\ tsv_file = file
          /\ given \/ file = NoFile
    /\ format_original = NoFormat
    /\ format_generated = NoFormat
    /\ original_taxa = <<>>
    /\ generated_taxa = <<>>
    /\ pair_dict = <<>>
    /\ idx = 1
    /\ pc = "main_classify"
    /\ taxa_comp_dict = None
    /\ dist_comp_dict = None
    /\ topo_comp_dict = None
    /\ original_tree = NoTree
    /\ generated_tree = NoTree
    /\ stdout = <<>>
    /\ tsv_entry = None
    \* a table found at the path was written by one earlier run
    /\ runs = IF tsv_file.exists THEN 1 ELSE 0
    /\ text = ""
    /\ earlier = ""
    /\ applied = <<>>
    /\ exception = "none"

\* lines 450-474: the two files are read and classified, the job is built
MainClassify ==
    /\ UNCHANGED <<text_vars, runs>>
    /\ pc = "main_classify"
    /\ \E f_original \in { get_newick_format(original_newick) },
          f_generated \in { get_newick_format(generated_newick) } :
           IF f_original = InvalidNewick \/ f_generated = InvalidNewick
           THEN /\ exception' = "ValueError"
                /\ pc' = "raised"
                /\ UNCHANGED <<format_original, format_generated>>
           ELSE /\ format_original' = f_original
                /\ format_generated' = f_generated
                /\ pc' = "main_compare"
                /\ UNCHANGED exception
    /\ UNCHANGED <<original_newick, generated_newick, loop_vars, result_vars, tree_vars,
                   io_vars>>

\* lines 458-465
topo_only == format_original = 100 \/ format_generated = 100

taxa_only == format_original = 9 \/ format_generated = 9

\* lines 499-513: the three comparators in the order main calls them; the
\* first exception leaves main
MainCompare ==
    /\ UNCHANGED <<text_vars, runs>>
    /\ pc = "main_compare"
    /\ IF taxa_only \/ ~topo_only
       THEN \E t \in { compare_taxa(original_newick, generated_newick) },
               d \in { compare_distances(original_newick, generated_newick) },
               o \in { compare_topology(original_newick, generated_newick) } :
                /\ taxa_comp_dict' = t.value
                /\ dist_comp_dict' = IF t.raised = "none" THEN d.value ELSE None
                /\ topo_comp_dict' = IF t.raised = "none" /\ d.raised = "none"
                                     THEN o.value ELSE None
                /\ exception' = IF t.raised # "none" THEN t.raised
                                ELSE IF d.raised # "none" THEN d.raised
                                ELSE o.raised
                /\ pc' = IF t.raised = "none" /\ d.raised = "none" /\ o.raised = "none"
                         THEN "main_emit" ELSE "raised"
                /\ IF t.raised = "none"
                   THEN TreesBuilt(original_newick, generated_newick)
                   ELSE UNCHANGED tree_vars
       ELSE /\ taxa_comp_dict' = None
            /\ dist_comp_dict' = None
            /\ topo_comp_dict' = None
            /\ pc' = "main_emit"
            /\ UNCHANGED <<tree_vars, exception>>
    /\ UNCHANGED <<job_vars, loop_vars, io_vars>>

\* variant: the file is opened with "w" and the header written on every run
WriteOutfileTruncating(file, tsv_header, entry) ==
    [exists |-> TRUE, lines |-> << tsv_header, entry >>]

\* lines 518-526: a file that does not exist is created with the header
\* (mode "w"); the entry is appended (mode "a")
WriteOutfile(file, tsv_header, entry) ==
    [exists |-> TRUE,
     lines |-> (IF file.exists THEN file.lines ELSE << tsv_header >>) \o << entry >>]

\* lines 515-530: the header and the entry are built, then printed or written
MainEmit ==
    /\ UNCHANGED text_vars
    /\ runs' = runs + 1
    /\ pc = "main_emit"
    /\ \E tsv_header \in { get_tsv_header },
          entry \in { get_tsv_entry(format_original, format_generated,
                                    taxa_comp_dict, dist_comp_dict, topo_comp_dict) } :
           /\ tsv_entry' = entry
           /\ IF outfile_path
              THEN /\ tsv_file' = WriteOutfile(tsv_file, tsv_header, entry)
                   /\ UNCHANGED stdout
              ELSE /\ stdout' = stdout \o << tsv_header, entry >>
                   /\ UNCHANGED tsv_file
    /\ pc' = "main_done"
    /\ UNCHANGED <<job_vars, loop_vars, result_vars, tree_vars, outfile_path, exception>>

\* the documents of a later run
LaterPairs == ScenarioPairs

\* main is run again with the same --outfile, as the pipeline script does for
\* each prediction file: a new process, whose only inheritance is the file
MainNextRun ==
    /\ pc \in { "main_done", "raised" }
    /\ runs < MaxRuns
    /\ \E p \in LaterPairs :
          /\ original_newick' = p[1]
          /\ generated_newick' = p[2]
    /\ format_original' = NoFormat
    /\ format_generated' = NoFormat
    /\ taxa_comp_dict' = None
    /\ dist_comp_dict' = None
    /\ topo_comp_dict' = None
    /\ original_tree' = NoTree
    /\ generated_tree' = NoTree
    /\ stdout' = <<>>
    /\ tsv_entry' = None
    /\ exception' = "none"
    /\ pc' = "main_classify"
    /\ UNCHANGED <<loop_vars, outfile_path, tsv_file, runs, text_vars>>

NextMain == MainClassify \/ MainCompare \/ MainEmit \/ MainNextRun

SpecMain == InitMain /\ [][NextMain]_vars

(***************************************************************************)
(* The text transforms of utilities: re.sub replaces the matches found in  *)
(* one left-to-right scan of the text it was given; lookbehind and         *)
(* lookahead read that text, not the result.                               *)
(***************************************************************************)
\* the match \d of (?<=\))\d at position i
SupportDigitAt(s, i) == i > 1 /\ Char(s, i - 1) = ")" /\ Char(s, i) \in Digits

RECURSIVE RemoveSupportFrom(_, _)
RemoveSupportFrom(s, pos) ==
    IF pos > Len(s) THEN ""
    ELSE IF SupportDigitAt(s, pos) THEN RemoveSupportFrom(s, pos + 1)
    ELSE Char(s, pos) \o RemoveSupportFrom(s, pos + 1)

\* utilities.remove_support_vals: re.sub(r"(?<=\))\d", "", newick)
remove_support_vals(newick) == RemoveSupportFrom(newick, 1)

\* last position of the run of digits \d+ that starts at i
RECURSIVE DigitsEnd(_, _)
DigitsEnd(s, i) ==
    IF i + 1 <= Len(s) /\ Char(s, i + 1) \in Digits THEN DigitsEnd(s, i + 1) ELSE i

\* last position of the match of :\d+(\.\d+){0,1} that starts at p
DistanceEnd(s, p) ==
    LET e == DigitsEnd(s, p + 1)
    IN  IF e + 2 <= Len(s) /\ Char(s, e + 1) = "." /\ Char(s, e + 2) \in Digits
        THEN DigitsEnd(s, e + 2)
        ELSE e

RECURSIVE RemoveDistancesFrom(_, _)
RemoveDistancesFrom(s, pos) ==
    IF pos > Len(s) THEN ""
    ELSE IF Char(s, pos) = ":" /\ pos + 1 <= Len(s) /\ Char(s, pos + 1) \in Digits
    THEN RemoveDistancesFrom(s, DistanceEnd(s, pos) + 1)
    ELSE Char(s, pos) \o RemoveDistancesFrom(s, pos + 1)

\* utilities.remove_distances: re.sub(r":\d+(\.\d+){0,1}", "", newick)
remove_distances(newick) == RemoveDistancesFrom(newick, 1)

\* the pattern of get_taxa matches at p
TaxonAt(s, p) ==
    /\ p > 1
    /\ Char(s, p - 1) \in TaxonLookbehind
    /\ Char(s, p) \in TaxonChars
    /\ RunEnd(s, p) < Len(s)
    /\ Char(s, RunEnd(s, p) + 1) \in TaxonLookahead

RECURSIVE RemoveTaxaFrom(_, _)
RemoveTaxaFrom(s, pos) ==
    IF pos > Len(s) THEN ""
    ELSE IF TaxonAt(s, pos) THEN RemoveTaxaFrom(s, RunEnd(s, pos) + 1)
    ELSE Char(s, pos) \o RemoveTaxaFrom(s, pos + 1)

\* variant: re.sub with count=1, the scan stops after the first match
RECURSIVE RemoveFirstTaxonFrom(_, _)
RemoveFirstTaxonFrom(s, pos) ==
    IF pos > Len(s) THEN ""
    ELSE IF TaxonAt(s, pos) THEN SubSeq(s, RunEnd(s, pos) + 1, Len(s))
    ELSE Char(s, pos) \o RemoveFirstTaxonFrom(s, pos + 1)

remove_first_taxon_from_newick(newick) == RemoveFirstTaxonFrom(newick, 1)

\* utilities.remove_taxa_from_newick: re.sub of the pattern of get_taxa
remove_taxa_from_newick(newick) == RemoveTaxaFrom(newick, 1)

\* utilities.is_balanced
is_balanced(newick) == CountChar(newick, "(") = CountChar(newick, ")")

\* c * n
RECURSIVE Repeat(_, _)
Repeat(c, n) == IF n <= 0 THEN "" ELSE c \o Repeat(c, n - 1)

\* str.removesuffix
removesuffix(s, suffix) ==
    IF Len(s) >= Len(suffix) /\ SubSeq(s, Len(s) - Len(suffix) + 1, Len(s)) = suffix
    THEN SubSeq(s, 1, Len(s) - Len(suffix))
    ELSE s

\* variant: missing "(" are not prepended
balance_parentheses_closing_only(newick) ==
    LET opening_count == CountChar(newick, "(")
        closing_count == CountChar(newick, ")")
    IN  (IF opening_count > closing_count
         THEN newick \o Repeat(")", opening_count - closing_count)
         ELSE newick) \o ";"

\* utilities.balance_parentheses.  Line 207 calls newick.removesuffix(";") and
\* drops what it returns (stripped); the counts and the result are taken of
\* the text as it was given.
balance_parentheses(newick) ==
    LET stripped == removesuffix(newick, ";")
        opening_count == CountChar(newick, "(")
        closing_count == CountChar(newick, ")")
        closed == IF opening_count > closing_count
                  THEN newick \o Repeat(")", opening_count - closing_count)
                  ELSE newick
        opened == IF opening_count < closing_count
                  THEN Repeat("(", closing_count - opening_count) \o closed
                  ELSE closed
    IN  opened \o ";"

(***************************************************************************)
(* SpecText: a text and the utilities transforms applied to it, one call   *)
(* per step, each on the result of the one before.                         *)
(***************************************************************************)
\* texts with support values of one and of several digits and with a decimal
\* part, texts with a missing ")" or "(", and texts that are no document
TransformInputs ==
    { "((A:1,B:1)1:1,(C:1,D:1)1:1);",
      "((A:1,B:1)95:1,C:1);",
      "((A:1,B:1)0.95:1,C:1);",
      "((A,B);",
      "(A:1,B:1));",
      "(A:1.5,B:2.25):0.5;",
      "(A:1.5.5,B:1:2);",
      "",
      "))((",
      ")1(2:3" }

TextInputs ==
    TransformInputs \cup { p[1] : p \in ScenarioPairs } \cup { p[2] : p \in ScenarioPairs }

InitText ==
    /\ text \in TextInputs
    /\ earlier = text
    /\ applied = <<>>
    /\ original_newick = ""
    /\ generated_newick = ""
    /\ format_original = NoFormat
    /\ format_generated = NoFormat
    /\ original_taxa = <<>>
    /\ generated_taxa = <<>>
    /\ pair_dict = <<>>
    /\ idx = 1
    /\ pc = "text"
    /\ taxa_comp_dict = None
    /\ dist_comp_dict = None
    /\ topo_comp_dict = None
    /\ original_tree = NoTree
    /\ generated_tree = NoTree
    /\ outfile_path = FALSE
    /\ tsv_file = NoFile
    /\ stdout = <<>>
    /\ tsv_entry = None
    /\ runs = 0
    /\ exception = "none"

\* what no transform touches
rest_vars == <<job_vars, pc, loop_vars, result_vars, tree_vars, io_vars, runs, exception>>

\* newick = remove_support_vals(newick)
RemoveSupportVals ==
    /\ pc = "text"
    /\ Len(applied) < MaxTransforms
    /\ text' = remove_support_vals(text)
    /\ earlier' = text
    /\ applied' = Append(applied, "remove_support_vals")
    /\ UNCHANGED rest_vars

\* newick = remove_distances(newick)
RemoveDistances ==
    /\ pc = "text"
    /\ Len(applied) < MaxTransforms
    /\ text' = remove_distances(text)
    /\ earlier' = text
    /\ applied' = Append(applied, "remove_distances")
    /\ UNCHANGED rest_vars

\* newick = remove_taxa_from_newick(newick)
RemoveTaxa ==
    /\ pc = "text"
    /\ Len(applied) < MaxTransforms
    /\ text' = remove_taxa_from_newick(text)
    /\ earlier' = text
    /\ applied' = Append(applied, "remove_taxa_from_newick")
    /\ UNCHANGED rest_vars

\* newick = balance_parentheses(newick)
BalanceParentheses ==
    /\ pc = "text"
    /\ Len(applied) < MaxTransforms
    /\ text' = balance_parentheses(text)
    /\ earlier' = text
    /\ applied' = Append(applied, "balance_parentheses")
    /\ UNCHANGED rest_vars

NextText == RemoveSupportVals \/ RemoveDistances \/ RemoveTaxa \/ BalanceParentheses

SpecText == InitText /\ [][NextText]_vars

(***************************************************************************)
(* Claims about get_taxon_pairs_greedy, checked under SpecPairs.           *)
(***************************************************************************)
Returned == pc = "greedy_returned"

\* the generated list as it was passed to the call
GeneratedArgument == get_taxa(generated_newick)

HasDuplicates(l) == \E i, j \in DOMAIN l : i # j /\ l[i] = l[j]

Elements(l) == { l[i] : i \in DOMAIN l }

\* C1 as stated: after the call returns, the non-empty values of the pair map
\* are pairwise distinct (no generated name is assigned to two original taxa).
C1_ValuesPairwiseDistinct ==
    Returned =>
        \A i, j \in DOMAIN pair_dict :
            (i # j /\ pair_dict[i][2] # "") => pair_dict[i][2] # pair_dict[j][2]

\* C1 amended: a generated name is the value of at most as many entries as it
\* has occurrences in the generated list; with no duplicate in the generated
\* list the non-empty values are pairwise distinct.
C1_ValuesWithinMultiplicity ==
    Returned =>
        /\ \A g \in DictValues(pair_dict) \ {""} :
              Cardinality({ i \in DOMAIN pair_dict : pair_dict[i][2] = g })
                  <= Count(GeneratedArgument, g)
        /\ ~HasDuplicates(GeneratedArgument) =>
              \A i, j \in DOMAIN pair_dict :
                  (i # j /\ pair_dict[i][2] # "") => pair_dict[i][2] # pair_dict[j][2]

C1_Witness ==
    /\ Returned
    /\ HasDuplicates(GeneratedArgument)
    /\ Len(pair_dict) = 2
    /\ pair_dict[1][2] # ""
    /\ pair_dict[2][2] # ""

\* C2 as stated: the returned pair map has exactly len(original) entries.
C2_OneEntryPerElement == Returned => Len(pair_dict) = Len(original_taxa)

\* C2 amended: the returned pair map has exactly one entry per distinct name of
\* the original list (len(original) entries when no name repeats).
C2_OneEntryPerDistinctName ==
    Returned =>
        /\ Len(pair_dict) = Cardinality(Elements(original_taxa))
        /\ DictKeys(pair_dict) = Elements(original_taxa)
        /\ ~HasDuplicates(original_taxa) => Len(pair_dict) = Len(original_taxa)

C2_Witness ==
    /\ Returned
    /\ HasDuplicates(original_taxa)
    /\ Len(original_taxa) = 2
    /\ Len(pair_dict) = 1

\* positions of the pool whose score for taxon o is strictly above 0.75:
\* 1 - d/m > 3/4 exactly when 4*d < m
StrictlyAbove(o, pool) ==
    { i \in DOMAIN pool :
        4 * edit_distance(o, pool[i]) < Max2(Len(o), Len(pool[i])) }

WithoutPosition(l, i) == SubSeq(l, 1, i - 1) \o SubSeq(l, i + 1, Len(l))

JobPairs == get_taxon_pairs_greedy(get_taxa(original_newick), get_taxa(generated_newick))

Matched(pairs) == { i \in DOMAIN pairs : pairs[i][2] # "" }

RECURSIVE SumInts(_)
SumInts(q) == IF q = <<>> THEN 0 ELSE Head(q) + SumInts(Tail(q))

RECURSIVE SumFracs(_)
SumFracs(q) == IF q = <<>> THEN <<0, 1>> ELSE FracAdd(Head(q), SumFracs(Tail(q)))

\* x / n for a fraction x
FracOver(x, n) == <<x[1], x[2] * n>>

\* C4: for character-identical well-formed documents compare_taxa returns
\* correct_taxa_ratio 1.0 and mean_hamming_distance 0, and compare_topology
\* returns rf 0, rf_ratio 1.0 and correct_edges_ratio 1.0
C4_IdentityCase ==
    (original_newick = generated_newick) =>
        /\ taxa_comp_dict # None =>
              /\ taxa_comp_dict.correct_taxa_ratio = 10000
              /\ taxa_comp_dict.mean_hamming_distance = 0
        /\ topo_comp_dict # None =>
              /\ topo_comp_dict.rf = 0
              /\ topo_comp_dict.rf_ratio = 10000
              /\ topo_comp_dict.correct_edges_ratio = 10000

EntryEditDistance(pairs, i) == edit_distance(pairs[i][1], pairs[i][2])

\* C6: mean_edit_distance is the sum of the edit distances of the matched
\* pairs over their number; mean_edit_distance_total is the sum over all
\* entries (an unmatched one counting its full length) over the number of
\* original taxa
C6_EditDistanceMeans ==
    taxa_comp_dict # None =>
        LET pairs == JobPairs
            matched == Matched(pairs)
            sum_matched == SumInts([i \in DOMAIN pairs |->
                              IF i \in matched THEN EntryEditDistance(pairs, i) ELSE 0])
            sum_all == SumInts([i \in DOMAIN pairs |->
                              IF i \in matched THEN EntryEditDistance(pairs, i)
                              ELSE Len(pairs[i][1])])
        IN  /\ taxa_comp_dict.mean_edit_distance =
                  Round4(<<sum_matched, Cardinality(matched)>>)
            /\ taxa_comp_dict.mean_edit_distance_total = Round4(<<sum_all, Len(pairs)>>)

\* 1 - edit_distance/max_len of entry i
EntryEditRatio(pairs, i) ==
    LET m == Max2(Len(pairs[i][1]), Len(pairs[i][2]))
    IN  Frac(m - EntryEditDistance(pairs, i), m)

\* C7: mean_edit_ratio is the sum of 1 - edit_distance/max_len over the matched
\* pairs divided by their number, mean_edit_ratio_total the same sum divided by
\* the number of entries of the pair map, so that the total never exceeds the
\* mean over the matched pairs
C7_EditRatioMeans ==
    taxa_comp_dict # None =>
        LET pairs == JobPairs
            matched == Matched(pairs)
            sum_matched == SumFracs([i \in DOMAIN pairs |->
                              IF i \in matched THEN EntryEditRatio(pairs, i) ELSE <<0, 1>>])
        IN  /\ taxa_comp_dict.mean_edit_ratio =
                  Round4(FracOver(sum_matched, Cardinality(matched)))
            /\ taxa_comp_dict.mean_edit_ratio_total = Round4(FracOver(sum_matched, Len(pairs)))
            /\ taxa_comp_dict.mean_edit_ratio_total <= taxa_comp_dict.mean_edit_ratio

C7_Witness ==
    /\ taxa_comp_dict # None
    /\ taxa_comp_dict.mismatches # <<>>
    /\ taxa_comp_dict.mean_edit_ratio_total < taxa_comp_dict.mean_edit_ratio

EqualLength(pairs) == { i \in Matched(pairs) : Len(pairs[i][1]) = Len(pairs[i][2]) }

Differing(a, b) == Cardinality({ k \in 1..Len(a) : Char(a, k) # Char(b, k) })

C10_LeavesRenamed ==
    (generated_tree # NoTree) =>
        \A i \in Matched(JobPairs) :
            /\ JobPairs[i][1] \in LeafNameSet(generated_tree)
            /\ JobPairs[i][1] \in LeafNameSet(original_tree) \cap LeafNameSet(generated_tree)

(***************************************************************************)
(* Claims about main, checked under SpecMain.                              *)
(***************************************************************************)
\* main has classified both files and called compare_taxa (lines 499-507)
TaxaCompared ==
    /\ pc \in { "raised", "main_emit", "main_done" }
    /\ format_original # NoFormat
    /\ taxa_only \/ ~topo_only

\* no original taxon at all, or no entry of the pair map is matched
Degenerate ==
    \/ Len(get_taxa(original_newick)) = 0
    \/ Matched(JobPairs) = {}

\* C9: when taxa_count_original is 0 or every original taxon is unmatched, no
\* division-by-zero exception leaves compare_taxa: the taxa fields are None
\* and main still goes on to produce its report
C9_DegenerateRejected ==
    (TaxaCompared /\ Degenerate) =>
        /\ exception # "ZeroDivisionError"
        /\ pc # "raised"
        /\ taxa_comp_dict = None

(***************************************************************************)
(* Claims about compare_topology, checked under Spec.                      *)
(***************************************************************************)
\* compare_topology has been called and has built both trees (only
\* compare_distances ends with an AttributeError or a StatisticsError)
TopologyCalled ==
    \/ topo_comp_dict # None
    \/ /\ generated_tree # NoTree
       /\ exception \notin { "AttributeError", "StatisticsError" }

\* C11: compare_topology returns rf_ratio = 1 - rf/max_rf, and when max_rf is 0
\* it returns rf_ratio = 1 instead of raising a division error
C11_RfRatioGuarded ==
    LET comp == TreeCompare(original_tree, generated_tree)
    IN  (TopologyCalled /\ comp.raised = "none") =>
            IF comp.value.max_rf = 0
            THEN /\ topo_comp_dict # None
                 /\ topo_comp_dict.rf_ratio = 10000
            ELSE topo_comp_dict # None =>
                    topo_comp_dict.rf_ratio =
                        Round4(<<comp.value.max_rf - comp.value.rf, comp.value.max_rf>>)

(***************************************************************************)
(* Claims about get_tsv_header and get_tsv_entry.                          *)
(***************************************************************************)
\* get_tsv_entry has returned (tsv_entry is the sequence of its fields)
EntryBuilt == tsv_entry # None

\* C12: whichever of the three metric groups are populated or None, the entry
\* get_tsv_entry returns has exactly as many fields as the header of
\* get_tsv_header (checked under SpecMain on the entry main emits)
C12_EntryMatchesHeader ==
    EntryBuilt => Len(tsv_entry) = Len(get_tsv_header)

\* the topology columns as the specification lists them
TopologyColumns ==
    << "rf_dist", "max_rf_dist", "rf_ratio", "count_orig_edges", "count_missing_edges",
       "count_common_edges", "correct_edge_ratio", "count_multifurcations_original",
       "count_multifurcations_generated" >>

\* position of a column name in the header
ColumnOf(name) == CHOOSE i \in DOMAIN get_tsv_header : get_tsv_header[i] = name

\* the field of the entry below a column name
Field(name) == tsv_entry[ColumnOf(name)]

\* get_tsv_entry has returned an entry for a populated topology group
TopologyEntryBuilt == EntryBuilt /\ topo_comp_dict # None

\* C13: the topology part of the schema is rf_dist, max_rf_dist, rf_ratio,
\* count_orig_edges, count_missing_edges, count_common_edges,
\* correct_edge_ratio, count_multifurcations_original,
\* count_multifurcations_generated in this order, and each value of a populated
\* entry stands below its own column name
C13_TopologySchema ==
    TopologyEntryBuilt =>
        /\ SubSeq(get_tsv_header, ColumnOf("rf_dist"), Len(get_tsv_header)) = TopologyColumns
        /\ Field("rf_dist") = topo_comp_dict.rf
        /\ Field("max_rf_dist") = topo_comp_dict.max_rf
        /\ Field("rf_ratio") = topo_comp_dict.rf_ratio
        /\ Field("count_orig_edges") = topo_comp_dict.count_original_edges
        /\ Field("count_missing_edges") = topo_comp_dict.count_missing_edges
        /\ Field("count_common_edges") = topo_comp_dict.count_common_edges
        /\ Field("correct_edge_ratio") = topo_comp_dict.correct_edges_ratio
        /\ Field("count_multifurcations_original") =
               topo_comp_dict.count_multifurcations_original
        /\ Field("count_multifurcations_generated") =
               topo_comp_dict.count_multifurcations_generated

\* the field get_tsv_entry writes last, for the column
\* count_multifurcations_generated
LastField == tsv_entry[Len(tsv_entry)]

\* C14: in every entry with a populated topology group the column
\* count_multifurcations_generated holds the multifurcation count of the
\* generated tree, whatever the count of the original tree is
C14_GeneratedMultifurcations ==
    TopologyEntryBuilt =>
        /\ LastField = count_multifurcations(generated_tree)
        /\ LastField = topo_comp_dict.count_multifurcations_generated

(***************************************************************************)
(* Claims about count_multifurcations, checked under Spec.                 *)
(***************************************************************************)
\* the commas that separate the children of the node whose "(" is at p
DirectCommas(s, p) ==
    { q \in (p + 1)..MatchClose(s, p) : Char(s, q) = "," /\ Depth(s, q) = Depth(s, p) }

\* number of nodes with more than two children: a node has one child more than
\* it has separating commas
NodesAboveTwoChildren(s) ==
    Cardinality({ p \in Opens(s) : Cardinality(DirectCommas(s, p)) >= 2 })

\* the documents of the job that Tree() parses
ParsedDocuments == { s \in { original_newick, generated_newick } : TreeParses(s, 0) }

\* C15: count_multifurcations returns the number of nodes of the parsed tree,
\* root included, that have more than two children, each node counted once:
\* "(A,B,C);" gives 1, "((A,B),C);" gives 0, and a multifurcating node below
\* another one is counted separately
C15_CountsMultifurcations ==
    /\ \A s \in ParsedDocuments : count_multifurcations(s) = NodesAboveTwoChildren(s)
    /\ original_newick = "(A,B,C);" => count_multifurcations(original_newick) = 1
    /\ generated_newick = "((A,B),C);" => count_multifurcations(generated_newick) = 0
    /\ topo_comp_dict # None =>
          /\ topo_comp_dict.count_multifurcations_original
                 = NodesAboveTwoChildren(original_tree)
          /\ topo_comp_dict.count_multifurcations_generated
                 = NodesAboveTwoChildren(generated_tree)

\* compare_topology has counted "((A:1,B:1,C:1):1,D:1,E:1);" (the root and the
\* node below it) and "((A:1,B:1):1,C:1,D:1,E:1);" (the root only)
C15_Witness ==
    /\ topo_comp_dict # None
    /\ original_tree = "((A:1,B:1,C:1):1,D:1,E:1);"
    /\ topo_comp_dict.count_multifurcations_original = 2
    /\ topo_comp_dict.count_multifurcations_generated = 1

(***************************************************************************)
(* Claims about the branches of main, checked under SpecMain.              *)
(***************************************************************************)
\* the distance columns of the header
DistanceColumns ==
    { get_tsv_header[i] :
        i \in ColumnOf("mean_abs_diff_leaf_dists")..ColumnOf("median_pairwise_dist_diff") }

\* the topology columns of the header
HeaderTopologyColumns ==
    { get_tsv_header[i] : i \in ColumnOf("rf_dist")..Len(get_tsv_header) }

Full == { 5, 0 }

\* one document is topology-only, the other carries names and branch lengths
TopologyOnlyAgainstFull ==
    \/ format_original = 100 /\ format_generated \in Full
    \/ format_generated = 100 /\ format_original \in Full

RecordEmitted == pc = "main_done"

\* C16: when a topology-only input is compared against a full input, the
\* emitted record has None in every distance column and computed values in the
\* topology columns rf_dist ... count_multifurcations_generated
C16_TopologyOnlyRecord ==
    (RecordEmitted /\ TopologyOnlyAgainstFull) =>
        /\ \A name \in DistanceColumns : Field(name) = "None"
        /\ topo_comp_dict # None
        /\ \A name \in HeaderTopologyColumns : Field(name) # "None"

\* main has classified both files and is past the branches of lines 499-513
MainCompared ==
    /\ pc \in { "raised", "main_emit", "main_done" }
    /\ format_original # NoFormat

\* C17: whenever either input is TopologyOnly (format 100), whatever the kind
\* of the other (TaxaOnly included), the comparison is skipped: compare_distances
\* is not invoked, no comparator ends the run, and all distance fields of the
\* record are None
C17_DistancesSkipped ==
    (MainCompared /\ topo_only) =>
        /\ dist_comp_dict = None
        /\ generated_tree = NoTree
        /\ pc # "raised"
        /\ RecordEmitted => \A name \in DistanceColumns : Field(name) = "None"

(***************************************************************************)
(* Claims about compare_distances, checked under Spec.                     *)
(***************************************************************************)
\* Tree() parses both documents of the job
BothParse == TreeParses(original_newick, 0) /\ TreeParses(generated_newick, 0)

\* common_leaves of line 366
CommonLeaves == LeafNameSet(original_newick) \cap LeafNameSet(generated_newick)

\* the branch length of the leaf named n, as it is written in the document
LeafDistText(s, n) ==
    { AfterColon(Token(s, l)) : l \in { x \in LeafStarts(s) : LeafName(s, x) = n } }

\* every common leaf has the same branch length in both documents, so that no
\* difference is negative and none is positive
NoDifference ==
    \A n \in CommonLeaves : LeafDistText(original_newick, n) = LeafDistText(generated_newick, n)

\* C18: compare_distances signals an undefined statistic as None and does not
\* raise: with no common leaf all statistics are None, with no negative
\* (positive) difference mean_neg_diff and median_neg_diff (mean_pos_diff and
\* median_pos_diff) are None, with fewer than two common leaves the pairwise
\* statistics are None, and the other statistics are returned
C18_UndefinedIsNone ==
    [][ (CompareDistances /\ BothParse) =>
          /\ exception' = "none"
          /\ dist_comp_dict' # None
          /\ CommonLeaves = {} =>
                \A k \in DOMAIN dist_comp_dict' : dist_comp_dict'[k] = None
          /\ NoDifference =>
                /\ dist_comp_dict'.mean_neg_diff = None
                /\ dist_comp_dict'.median_neg_diff = None
                /\ dist_comp_dict'.mean_pos_diff = None
                /\ dist_comp_dict'.median_pos_diff = None
          /\ Cardinality(CommonLeaves) < 2 =>
                /\ dist_comp_dict'.mean_pairwise_diff = None
                /\ dist_comp_dict'.median_pairwise_diff = None
          /\ CommonLeaves # {} =>
                /\ dist_comp_dict'.mean_abs_diff # None
                /\ dist_comp_dict'.median_abs_diff # None
      ]_vars

\* the two documents of the scenario: the same tree, every branch length doubled
ScaledByTwo ==
    /\ original_newick = "((A:1,B:1):1,(C:1,D:1):1);"
    /\ generated_newick = "((A:2,B:2):2,(C:2,D:2):2);"

\* C19: for two Full trees with a common leaf compare_distances returns
\* normally and mean_abs_diff is the mean of |original leaf branch length -
\* generated leaf branch length| over the common leaves; for the same tree with
\* every branch length doubled rf = 0, rf_ratio = 1.0 and mean_abs_diff > 0
C19_LeafDifferences ==
    /\ [][ (CompareDistances /\ format_original \in Full /\ format_generated \in Full
              /\ CommonLeaves # {}) =>
             /\ exception' = "none"
             /\ dist_comp_dict' # None
             /\ NoDifference <=> dist_comp_dict'.mean_abs_diff = 0
             /\ ScaledByTwo => dist_comp_dict'.mean_abs_diff > 0
         ]_vars
    /\ [] ((ScaledByTwo /\ topo_comp_dict # None) =>
              /\ topo_comp_dict.rf = 0
              /\ topo_comp_dict.rf_ratio = 10000)

(***************************************************************************)
(* Claims about get_newick_format, checked under SpecMain.                 *)
(***************************************************************************)
\* the grammars in the order TopologyOnly, TaxaOnly, the two full grammars
Grammars == <<100, 9, 5, 0>>

\* the places in that order of the grammars that accept the text
Accepting(s) == { i \in DOMAIN Grammars : is_newick(s, Grammars[i]) }

FirstAccepting(s) == Grammars[SetMin(Accepting(s))]

\* main is past the two calls of get_newick_format (lines 453-454)
Classified == pc # "main_classify"

\* C20: get_newick_format returns the first grammar of the order TopologyOnly
\* (100), TaxaOnly (9), full (5, 0) that accepts the text: a text the
\* TopologyOnly grammar accepts is never TaxaOnly or Full, a text the TaxaOnly
\* but not the TopologyOnly grammar accepts is never Full, another call on the
\* same text gives the same kind, and a text no grammar accepts raises
\* ValueError and gets no kind
C20_FirstAcceptingGrammar ==
    Classified =>
        IF Accepting(original_newick) = {} \/ Accepting(generated_newick) = {}
        THEN /\ pc = "raised"
             /\ exception = "ValueError"
             /\ format_original = NoFormat
             /\ format_generated = NoFormat
        ELSE /\ exception # "ValueError"
             /\ \A d \in { <<original_newick, format_original>>,
                           <<generated_newick, format_generated>> } :
                   /\ d[2] = FirstAccepting(d[1])
                   /\ is_newick(d[1], 100) => d[2] = 100
                   /\ (is_newick(d[1], 9) /\ ~is_newick(d[1], 100)) => d[2] = 9
                   /\ d[2] = get_newick_format(d[1])

\* "(A,B);" is accepted by the TaxaOnly and by the flexible grammar and is
\* classified TaxaOnly; "((,),(,));" is classified TopologyOnly
C20_Witness ==
    /\ Classified
    /\ format_original = 9
    /\ is_newick(original_newick, 0)
    /\ format_generated = 100

\* a text no grammar accepts has ended main with ValueError
C20_Rejected ==
    /\ Classified
    /\ Accepting(original_newick) = {}
    /\ exception = "ValueError"

(***************************************************************************)
(* C21: get_taxa on a valid document.                                      *)
(***************************************************************************)
\* a label the pattern of get_taxa can match whole: one or more characters
\* of the class
ClassLabel(t) == Len(t) > 0 /\ \A i \in 1..Len(t) : Char(t, i) \in TaxonChars

LeafCount(s) == Cardinality(LeafStarts(s))

\* C21 (as stated): for every valid document the list get_taxa returns is as
\* long as the document has leaves
C21_LengthIsLeafCount ==
    format_original # InvalidNewick => Len(original_taxa) = LeafCount(original_newick)

\* C21 (amended): for a valid document get_taxa returns, in document order,
\* the leaf labels that are non-empty and made of class characters only; the
\* list is as long as the document has leaves when every leaf has such a label
C21_ClassLabelsInOrder ==
    format_original # InvalidNewick =>
        /\ original_taxa = SelectSeq(get_leaf_names(original_newick), ClassLabel)
        /\ original_taxa = get_taxa(original_newick)
        /\ (\A l \in LeafStarts(original_newick) : ClassLabel(LeafName(original_newick, l)))
              => Len(original_taxa) = LeafCount(original_newick)

\* "(A*:1,B:1);" is valid and has two leaves; only "B" is returned
C21_Witness ==
    /\ format_original # InvalidNewick
    /\ LeafCount(original_newick) = 2
    /\ original_taxa = <<"B">>

(***************************************************************************)
(* C22: remove_support_vals applied twice.                                 *)
(***************************************************************************)
\* the transform of the last step
LastApplied(name) == applied # <<>> /\ applied[Len(applied)] = name

\* a ")" of s is immediately followed by a digit
DigitAfterClosing(s) == \E i \in 2..Len(s) : SupportDigitAt(s, i)

\* C22: the result of remove_support_vals is a fixed point of
\* remove_support_vals, and no ")" of it is immediately followed by a digit
C22_SupportValsIdempotent ==
    LastApplied("remove_support_vals") =>
        /\ remove_support_vals(text) = text
        /\ ~DigitAfterClosing(text)

(***************************************************************************)
(* C23: remove_distances and remove_taxa_from_newick applied twice.        *)
(***************************************************************************)
\* C23: the result of remove_distances is a fixed point of remove_distances,
\* the result of remove_taxa_from_newick is a fixed point of
\* remove_taxa_from_newick, and get_taxa finds nothing in it
C23_DistancesTaxaIdempotent ==
    /\ LastApplied("remove_distances") => remove_distances(text) = text
    /\ LastApplied("remove_taxa_from_newick") =>
          /\ remove_taxa_from_newick(text) = text
          /\ get_taxa(text) = <<>>

\* both transforms have been applied to a text they change: the taxa of
\* "(A:1,B:1);" are removed and then its distances, or the other way round
C23_Witness ==
    /\ Len(applied) = 2
    /\ { applied[1], applied[2] } = { "remove_distances", "remove_taxa_from_newick" }
    /\ text = "(,);"
    /\ earlier # text

(***************************************************************************)
(* C24: what balance_parentheses adds.                                     *)
(***************************************************************************)
Missing(s, c, d) == Max2(0, CountChar(s, d) - CountChar(s, c))

\* C24: the result of balance_parentheses has as many "(" as ")"; it is the
\* text given with the missing "(" put before it and the missing ")" put
\* after it (followed by the ";" line 221 adds), and with nothing else added
C24_BalancedByAdding ==
    LastApplied("balance_parentheses") =>
        LET k == Missing(earlier, "(", ")")
            m == Missing(earlier, ")", "(")
        IN  /\ is_balanced(text)
            /\ Len(text) = Len(earlier) + k + m + 1
            /\ k = 0 \/ m = 0
            /\ SubSeq(text, k + 1, k + Len(earlier)) = earlier
            /\ \A i \in 1..k : Char(text, i) = "("
            /\ \A i \in 1..m : Char(text, k + Len(earlier) + i) = ")"

\* a text with a missing "(" and a text with a missing ")" have been balanced
C24_Witness ==
    /\ LastApplied("balance_parentheses")
    /\ ~is_balanced(earlier)
    /\ CountChar(earlier, "(") < CountChar(earlier, ")")
    /\ is_balanced(text)

(***************************************************************************)
(* C28: the shape of what balance_parentheses returns.                     *)
(***************************************************************************)
EndsWith(s, c) == Len(s) > 0 /\ Char(s, Len(s)) = c

\* C28: for a text that ends with ";", the result of balance_parentheses has
\* one ";", at its end; a balanced one is returned as it was given
C28_DocumentShape ==
    (LastApplied("balance_parentheses") /\ EndsWith(earlier, ";")) =>
        /\ EndsWith(text, ";")
        /\ CountChar(text, ";") = 1
        /\ is_balanced(earlier) => text = earlier

(***************************************************************************)
(* C25: the range of edit_distance_ratio.                                  *)
(***************************************************************************)
\* the names the scores of a call are computed of
ScoredNames ==
    { original_taxa[i] : i \in DOMAIN original_taxa }
    \cup { GeneratedArgument[i] : i \in DOMAIN GeneratedArgument }

One == <<1, 1>>

Zero == <<0, 1>>

\* C25: the score of two names lies in [0, 1], is 1 exactly when the names are
\* equal, and is the same with the names exchanged
C25_ScoreRange ==
    \A a \in ScoredNames, b \in ScoredNames :
        \E r \in { edit_distance_ratio(a, b) } :
            /\ ~FracGT(Zero, r)
            /\ ~FracGT(r, One)
            /\ (r = One) <=> (a = b)
            /\ r = edit_distance_ratio(b, a)

\* the call has returned; it scored two equal names 1, two names with no
\* common character 0 and two names of unequal length strictly in between
C25_Witness ==
    /\ Returned
    /\ \E a \in ScoredNames, b \in ScoredNames :
          a # b /\ edit_distance_ratio(a, b) = Zero
    /\ \E a \in ScoredNames, b \in ScoredNames :
          /\ Len(a) # Len(b)
          /\ FracGT(edit_distance_ratio(a, b), Zero)
          /\ FracGT(One, edit_distance_ratio(a, b))
    /\ \E i \in DOMAIN pair_dict : pair_dict[i][1] = pair_dict[i][2]

(***************************************************************************)
(* C27: the choice among equal best scores.                                *)
(***************************************************************************)
\* positions of the pool whose score for o no other position exceeds
BestPositions(o, pool) ==
    { i \in DOMAIN pool :
        \A j \in DOMAIN pool :
            ~FracGT(edit_distance_ratio(o, pool[j]), edit_distance_ratio(o, pool[i])) }

\* C27: an iteration that assigns a name assigns the name at the earliest
\* pool position that has the best score and removes that one position from
\* the pool, the others keeping their order; the dict returned is the value
\* of the function of the two lists
C27_EarliestOfEqualBest ==
    /\ [][ (/\ pc = "greedy_loop"
            /\ idx <= Len(original_taxa)
            /\ idx' = idx + 1
            /\ DictGet(pair_dict', original_taxa[idx]) # "") =>
              \E first \in { SetMin(BestPositions(original_taxa[idx], generated_taxa)) } :
                  /\ DictGet(pair_dict', original_taxa[idx]) = generated_taxa[first]
                  /\ generated_taxa' = WithoutPosition(generated_taxa, first)
                  /\ Len(generated_taxa') = Len(generated_taxa) - 1
         ]_vars
    /\ [](Returned => pair_dict = get_taxon_pairs_greedy(original_taxa, GeneratedArgument))

\* "abcdf" and "abcde" both score 0.8 for "abcd"; "abcdf" comes first in the
\* generated list and is assigned, "abcde" stays in the pool
C27_Witness ==
    /\ Returned
    /\ GeneratedArgument = <<"abcdf", "abcde">>
    /\ pair_dict = << <<"abcd", "abcdf">> >>
    /\ generated_taxa = <<"abcde">>

(***************************************************************************)
(* C26: a classified run emits its record.                                 *)
(***************************************************************************)
\* C26: a run of main whose two documents were classified is not ended by an
\* exception: after the comparison it builds and emits its one record
C26_ClassifiedRunEmits ==
    /\ (Classified /\ format_original # NoFormat) =>
          pc \in { "main_compare", "main_emit", "main_done" }
    /\ pc = "main_done" => tsv_entry # None

(***************************************************************************)
(* C29: the table at --outfile over several runs.                          *)
(***************************************************************************)
\* l is the first Len(l) lines of m
IsPrefix(l, m) == Len(l) <= Len(m) /\ SubSeq(m, 1, Len(l)) = l

\* C29: with --outfile the table is one header line and one entry line per
\* run that emitted, each run adding its entry after the lines it found and
\* the header only to a file it did not find; without --outfile there is no
\* file
C29_OneHeaderThenEntries ==
    /\ [](~outfile_path => tsv_file = NoFile)
    /\ []((outfile_path /\ ~tsv_file.exists) => (runs = 0 /\ tsv_file = NoFile))
    /\ []((outfile_path /\ tsv_file.exists) =>
             /\ Len(tsv_file.lines) = 1 + runs
             /\ tsv_file.lines[1] = get_tsv_header
             /\ \A i \in 2..Len(tsv_file.lines) : tsv_file.lines[i] # get_tsv_header)
    /\ [][ /\ IsPrefix(tsv_file.lines, tsv_file'.lines)
           /\ tsv_file' # tsv_file =>
                 /\ runs' = runs + 1
                 /\ tsv_file'.lines =
                       (IF tsv_file.exists THEN tsv_file.lines ELSE << get_tsv_header >>)
                       \o << tsv_entry' >>
         ]_vars

\* two runs have written to a path where the first found no file: the table
\* is the header, the entry of the first run and the different entry of the
\* second
C29_Witness ==
    /\ outfile_path
    /\ pc = "main_done"
    /\ runs = 2
    /\ Len(tsv_file.lines) = 3
    /\ tsv_file.lines[2] # EarlierTable.lines[2]
    /\ tsv_file.lines[3] # tsv_file.lines[2]
    /\ tsv_file.lines[3] = tsv_entry

====
